---- MODULE Spec2Model ----
(***************************************************************************)
(* Model of src/jpeg/decoder.rs: the JPEG decoding adapter of the image    *)
(* crate.  JpegDecoder probes a stream with the jpeg bitstream decoder,    *)
(* hides the CMYK32 pixel format behind RGB24, decodes either into a       *)
(* JpegReader or into a caller-supplied buffer, converts CMYK samples with *)
(* cmyk_to_rgb and translates jpeg::Error into ImageError.                  *)
(*                                                                         *)
(* Two specifications:                                                     *)
(*   Spec      the life of decoder handles built over one stream           *)
(*   SpecConv  the pure function cmyk_to_rgb applied to bounded inputs     *)
(***************************************************************************)
EXTENDS Integers, Sequences, FiniteSets, TLC

VARIABLES
    \* ---- Spec: the stream, the handle and what the caller has seen ----
    source,      \* what the stream holds: width, height, pixel_format, raw
    pc,          \* "start" | "decoder" | "reader" | "done" | "failed" | "panicked"
    info,        \* jpeg::Decoder::info(): NoInfo before read_info succeeded
    metadata,    \* JpegDecoder.metadata (normalized copy of info)
    result,      \* what the last call returned to the caller
    jpegErr,     \* the jpeg::Error the bitstream decoder raised in the last call
    queried,     \* [op, dims, color]: what the last accessor call returned
    decodeCalls, \* number of jpeg::Decoder::decode() calls made by this handle
    convCalls,   \* number of cmyk_to_rgb calls made by this handle
    rawSeen,     \* what decode() handed back to this handle (<<>> if nothing yet)
    data,        \* the local `data` after the match on the pixel format
    cursor,      \* JpegReader.0: [inner |-> Vec<u8>, pos |-> position]
    dest,        \* the Vec<u8> the caller passed to the last read_to_end
    destIn,      \* what that Vec held when the caller passed it
    ended,       \* TRUE once a read_to_end on this reader has returned
    delivered,   \* all bytes the reader has handed out, in call order
    lastRead,    \* [op, n]: the last reader call and the count it returned
    buf,         \* the caller's buffer of read_image
    readerOut,   \* <<bytes>> once a reader over this stream was drained, else <<>>
    imageOut,    \* <<bytes>> once read_image over this stream returned Ok, else <<>>
    \* ---- SpecConv: cmyk_to_rgb on its own ----
    cin,         \* the input slice
    cout,        \* the returned Vec<u8>
    csteps,      \* per complete group, the intermediate values of the loop body
    cpc          \* "idle" | "input" | "converted" | "panicked"

handleVars == <<source, pc, info, metadata, result, jpegErr, queried, decodeCalls,
                convCalls, rawSeen, data, cursor, dest, destIn, ended, delivered,
                lastRead, buf, readerOut, imageOut>>
convVars == <<cin, cout, csteps, cpc>>
vars == <<handleVars, convVars>>

---------------------------------------------------------------------------
(* Bounds of the model *)

\* largest number of pixels (width * height) of a modelled image
MaxPixels == 2
\* longest input slice given to cmyk_to_rgb in SpecConv (besides single pixels)
MaxInputLen == 9
\* largest buffer a caller passes to JpegReader::read
MaxRead == 2

Byte == 0 .. 255
\* sample values of the short inputs of SpecConv
ShortBytes == {0, 255}

Min(a, b) == IF a <= b THEN a ELSE b

---------------------------------------------------------------------------
(* Color Converter: fn cmyk_to_rgb *)

\* u16 arithmetic: values are kept modulo 2^16 (a build with overflow checks
\* panics instead where the exact value does not fit)
SubU16(a, b) == (a - b) % 65536
\* (variant: the product formed in 8 bits)
MulU8(a, b) == (a * b) % 256
MulU16(a, b) == (a * b) % 65536
\* (variant: division rounding to nearest instead of truncating)
DivRoundU16(a, b) == (a + (b \div 2)) \div b
DivU16(a, b) == a \div b
\* `x as u8`: truncation to the low 8 bits
AsU8(x) == x % 256

\* The loop body: the inverted channels, the products, the quotients and the
\* three bytes written to the output chunk for one 4-byte input chunk.
PixelSteps(pixel) ==
    LET c == SubU16(255, pixel[1])
        m == SubU16(255, pixel[2])
        y == SubU16(255, pixel[3])
        k == SubU16(255, pixel[4])
        pr == MulU16(k, c)
        pg == MulU16(k, m)
        pb == MulU16(k, y)
        r == DivU16(pr, 255)
        g == DivU16(pg, 255)
        b == DivU16(pb, 255)
    IN  [c |-> c, m |-> m, y |-> y, k |-> k,
         pr |-> pr, pg |-> pg, pb |-> pb,
         r |-> r, g |-> g, b |-> b,
         outp |-> <<AsU8(r), AsU8(g), AsU8(b)>>]

\* input[..4 * count].chunks_exact(4)
in_pixels(input, count) ==
    [i \in 1 .. count |-> SubSeq(input, 4 * (i - 1) + 1, 4 * i)]

\* count = input.len() / 4
PixelCount(input) == Len(input) \div 4

\* input[..4 * count] and output[..3 * count] panic when the range end lies
\* past the end of the slice; output has 3 * count bytes
slices_in_bounds(input, count) ==
    /\ 4 * count <= Len(input)
    /\ 3 * count <= 3 * count

\* the values of the loop body for every (pixel, outp) pair of the zip
cmyk_steps(input) ==
    LET count == PixelCount(input)
        px == in_pixels(input, count)
    IN  [i \in 1 .. count |-> PixelSteps(px[i])]

\* (variant: a trailing partial group is padded to a black pixel, not dropped)
cmyk_to_rgb_padded(input) ==
    LET count == PixelCount(input)
        st == cmyk_steps(input)
        pad == IF Len(input) % 4 = 0 THEN 0 ELSE 3
    IN  [j \in 1 .. 3 * count + pad |->
            IF j <= 3 * count
            THEN st[((j - 1) \div 3) + 1].outp[((j - 1) % 3) + 1]
            ELSE 0]

\* output = vec![0; 3 * count], chunk i overwritten with the loop's three bytes
cmyk_to_rgb(input) ==
    LET count == PixelCount(input)
        st == cmyk_steps(input)
    IN  [j \in 1 .. 3 * count |-> st[((j - 1) \div 3) + 1].outp[((j - 1) % 3) + 1]]


---------------------------------------------------------------------------
(* The bitstream decoder (jpeg crate) as this adapter sees it *)

PixelFormats == {"L8", "RGB24", "CMYK32"}

\* jpeg::PixelFormat::pixel_bytes(): bytes per pixel of the decoded samples
pixel_bytes(pixel_format) ==
    CASE pixel_format = "L8" -> 1
      [] pixel_format = "RGB24" -> 3
      [] pixel_format = "CMYK32" -> 4

\* jpeg::Decoder::info() before read_info() has succeeded
NoInfo == [width |-> 0, height |-> 0, pixel_format |-> "None"]

\* jpeg::UnsupportedFeature values and their derived Debug rendering
NoFeature == [name |-> "none", arg |-> -1]
Features == {[name |-> "Hierarchical", arg |-> -1],
             [name |-> "SamplePrecision", arg |-> 12]}
DebugFeature(desc) ==
    IF desc.arg < 0 THEN desc.name
    ELSE desc.name \o "(" \o ToString(desc.arg) \o ")"

\* jpeg::Error values: Format(String), Unsupported(UnsupportedFeature),
\* Io(io::Error), Internal(Box<dyn Error>)
NoJpegErr == [kind |-> "none", msg |-> "", feature |-> NoFeature]
JpegErrors ==
    {[kind |-> "Format", msg |-> "invalid marker", feature |-> NoFeature],
     [kind |-> "Io", msg |-> "UnexpectedEof", feature |-> NoFeature],
     [kind |-> "Internal", msg |-> "worker failed", feature |-> NoFeature]}
    \cup {[kind |-> "Unsupported", msg |-> "", feature |-> f] : f \in Features}

\* what read_info() or decode() can do: succeed or raise one of the errors
Outcomes == {NoJpegErr} \cup JpegErrors

\* sample pixels the decoded images are made of, per reported format
PixelSamples(f) ==
    CASE f = "L8" -> {<<0>>, <<128>>}
      [] f = "RGB24" -> {<<0, 128, 255>>, <<128, 128, 0>>}
      [] f = "CMYK32" -> {<<0, 128, 255, 128>>, <<128, 0, 0, 0>>}

\* the samples of the pixels px, one after the other
Flatten(px, bpp) ==
    [j \in 1 .. Len(px) * bpp |-> px[((j - 1) \div bpp) + 1][((j - 1) % bpp) + 1]]

\* the image sizes modelled: at most MaxPixels pixels, neither side zero
Sizes == {wh \in (1 .. MaxPixels) \X (1 .. MaxPixels) : wh[1] * wh[2] <= MaxPixels}

\* the images a stream can hold: the decoder hands back exactly
\* width * height * pixel_bytes samples for the format it reports
Sources ==
    UNION {
        {[width |-> wh[1], height |-> wh[2], pixel_format |-> f,
          raw |-> Flatten(px, pixel_bytes(f))] :
            px \in [1 .. wh[1] * wh[2] -> PixelSamples(f)]} :
        wh \in Sizes, f \in PixelFormats}

---------------------------------------------------------------------------
(* Error Translator: ImageError::from_jpeg *)

\* ImageFormat::Jpeg.into(): the format hint carried by an error
JpegHint == "Exact(Jpeg)"
NoHint == "none"
NoCause == [type |-> "none", msg |-> ""]
NoError == [variant |-> "none", format |-> NoHint, kind |-> "none", text |-> "",
            cause |-> NoCause]

\* ImageError::Decoding(DecodingError::new(format, underlying))
DecodingError(format, underlying) ==
    [variant |-> "Decoding", format |-> format, kind |-> "none", text |-> "",
     cause |-> underlying]

\* ImageError::Unsupported(UnsupportedError::from_format_and_kind(format,
\*     UnsupportedErrorKind::GenericFeature(text)))
UnsupportedGenericFeature(format, text) ==
    [variant |-> "Unsupported", format |-> format, kind |-> "GenericFeature",
     text |-> text, cause |-> NoCause]

\* ImageError::IoError(err)
IoError(err) ==
    [variant |-> "IoError", format |-> NoHint, kind |-> "none", text |-> "",
     cause |-> err]

\* (variant: an internal error passed on as an I/O error)
from_jpeg_internal_as_io(err) ==
    CASE err.kind = "Format" ->
            DecodingError(JpegHint, [type |-> "jpeg::Error::Format", msg |-> err.msg])
      [] err.kind = "Unsupported" ->
            UnsupportedGenericFeature(JpegHint, DebugFeature(err.feature))
      [] err.kind = "Io" ->
            IoError([type |-> "io::Error", msg |-> err.msg])
      [] err.kind = "Internal" ->
            IoError([type |-> "Box<dyn Error>", msg |-> err.msg])

\* (variant: the unsupported-feature error built without the format hint)
from_jpeg_unsupported_unhinted(err) ==
    CASE err.kind = "Format" ->
            DecodingError(JpegHint, [type |-> "jpeg::Error::Format", msg |-> err.msg])
      [] err.kind = "Unsupported" ->
            UnsupportedGenericFeature(NoHint, DebugFeature(err.feature))
      [] err.kind = "Io" ->
            IoError([type |-> "io::Error", msg |-> err.msg])
      [] err.kind = "Internal" ->
            DecodingError(JpegHint, [type |-> "Box<dyn Error>", msg |-> err.msg])

from_jpeg(err) ==
    CASE err.kind = "Format" ->
            DecodingError(JpegHint, [type |-> "jpeg::Error::Format", msg |-> err.msg])
      [] err.kind = "Unsupported" ->
            UnsupportedGenericFeature(JpegHint, DebugFeature(err.feature))
      [] err.kind = "Io" ->
            IoError([type |-> "io::Error", msg |-> err.msg])
      [] err.kind = "Internal" ->
            DecodingError(JpegHint, [type |-> "Box<dyn Error>", msg |-> err.msg])

\* values a call hands back to its caller
NoResult == [op |-> "none", tag |-> "None", err |-> NoError]
Ok(op) == [op |-> op, tag |-> "Ok", err |-> NoError]
Err(op, e) == [op |-> op, tag |-> "Err", err |-> e]
Panic(op) == [op |-> op, tag |-> "Panic", err |-> NoError]

---------------------------------------------------------------------------
(* Metadata Normalizer and the accessors of the Decode Facade *)

\* (variant: the probed format is stored as it is)
normalize_identity(pixel_format) == pixel_format

\* JpegDecoder::new: CMYK32 is reported as RGB24
normalize(pixel_format) ==
    IF pixel_format = "CMYK32" THEN "RGB24" ELSE pixel_format

\* ColorType::from_jpeg; "panic" stands for the panic!() arm
ColorType_from_jpeg(pixel_format) ==
    CASE pixel_format = "L8" -> "L8"
      [] pixel_format = "RGB24" -> "Rgb8"
      [] pixel_format = "CMYK32" -> "panic"

\* JpegDecoder::dimensions
dimensions_of(md) == <<md.width, md.height>>

\* JpegDecoder::color_type
color_type_of(md) == ColorType_from_jpeg(md.pixel_format)

\* ColorType::bytes_per_pixel
bytes_per_pixel(ct) ==
    CASE ct = "L8" -> 1
      [] ct = "Rgb8" -> 3

\* ImageDecoder::total_bytes (default method): width * height * bytes per pixel
total_bytes(md) ==
    dimensions_of(md)[1] * dimensions_of(md)[2] * bytes_per_pixel(color_type_of(md))

---------------------------------------------------------------------------
(* Decode Facade: the state machine of one handle at a time over a stream *)

\* Cursor<Vec<u8>>: the bytes from the position (clamped to the length) on
cursor_remaining(cur) ==
    SubSeq(cur.inner, Min(cur.pos, Len(cur.inner)) + 1, Len(cur.inner))

NoQuery == [op |-> "none", dims |-> <<0, 0>>, color |-> "none"]
NoRead == [op |-> "none", n |-> 0]
EmptyCursor == [inner |-> <<>>, pos |-> 0]

\* a caller's buffer of n bytes, not yet written by the decoder
FreshBuf(n) == [i \in 1 .. n |-> 170]
\* buffer lengths a caller may pass to read_image: every right one and wrong ones
BufLens == 0 .. 3 * MaxPixels + 1
\* contents of the Vec a caller may pass to read_to_end
DestPrefixes == {<<>>, <<7>>}

\* everything of the handle and its reader but the stream and the outputs seen
HandleReset ==
    /\ queried' = NoQuery
    /\ decodeCalls' = 0
    /\ convCalls' = 0
    /\ rawSeen' = <<>>
    /\ data' = <<>>
    /\ cursor' = EmptyCursor
    /\ dest' = <<>>
    /\ destIn' = <<>>
    /\ ended' = FALSE
    /\ delivered' = <<>>
    /\ lastRead' = NoRead
    /\ buf' = <<>>

ConvIdle ==
    /\ cin = <<>>
    /\ cout = <<>>
    /\ csteps = <<>>
    /\ cpc = "idle"

HandleStart ==
    /\ pc = "start"
    /\ info = NoInfo
    /\ metadata = NoInfo
    /\ result = NoResult
    /\ jpegErr = NoJpegErr
    /\ queried = NoQuery
    /\ decodeCalls = 0
    /\ convCalls = 0
    /\ rawSeen = <<>>
    /\ data = <<>>
    /\ cursor = EmptyCursor
    /\ dest = <<>>
    /\ destIn = <<>>
    /\ ended = FALSE
    /\ delivered = <<>>
    /\ lastRead = NoRead
    /\ buf = <<>>
    /\ readerOut = <<>>
    /\ imageOut = <<>>

Init ==
    /\ source \in Sources
    /\ HandleStart
    /\ ConvIdle

\* JpegDecoder::new over a fresh stream of the same content, once the earlier
\* handle is finished: read_info() either fails, and the translated error is
\* returned, or the handle is built with the normalized metadata.
new ==
    /\ pc \in {"start", "done", "failed", "panicked"}
       \/ (pc = "reader" /\ cursor_remaining(cursor) = <<>>)
    /\ \E outcome \in Outcomes :
        /\ jpegErr' = outcome
        /\ IF outcome # NoJpegErr
           THEN /\ pc' = "failed"
                /\ result' = Err("new", from_jpeg(outcome))
                /\ info' = NoInfo
                /\ metadata' = NoInfo
           ELSE /\ pc' = "decoder"
                /\ result' = Ok("new")
                /\ info' = [width |-> source.width, height |-> source.height,
                            pixel_format |-> source.pixel_format]
                /\ metadata' = [info' EXCEPT !.pixel_format = normalize(@)]
    /\ HandleReset
    /\ UNCHANGED <<source, readerOut, imageOut, convVars>>

\* ImageDecoder::dimensions
dimensions ==
    /\ pc = "decoder"
    /\ queried' = [op |-> "dimensions", dims |-> dimensions_of(metadata),
                   color |-> "none"]
    /\ result' = Ok("dimensions")
    /\ UNCHANGED <<source, pc, info, metadata, jpegErr, decodeCalls, convCalls,
                   rawSeen, data, cursor, dest, destIn, ended, delivered,
                   lastRead, buf, readerOut, imageOut, convVars>>

\* ImageDecoder::color_type
color_type ==
    /\ pc = "decoder"
    /\ LET ct == color_type_of(metadata)
       IN  IF ct = "panic"
           THEN /\ pc' = "panicked"
                /\ result' = Panic("color_type")
                /\ UNCHANGED queried
           ELSE /\ pc' = pc
                /\ result' = Ok("color_type")
                /\ queried' = [op |-> "color_type", dims |-> <<0, 0>>, color |-> ct]
    /\ UNCHANGED <<source, info, metadata, jpegErr, decodeCalls, convCalls,
                   rawSeen, data, cursor, dest, destIn, ended, delivered,
                   lastRead, buf, readerOut, imageOut, convVars>>

\* the match on the pixel format after decode(): CMYK32 data goes through
\* cmyk_to_rgb, anything else is kept; calls counts the conversions made
convert_decoded(pixel_format, raw) ==
    IF pixel_format = "CMYK32"
    THEN [data |-> cmyk_to_rgb(raw), calls |-> 1]
    ELSE [data |-> raw, calls |-> 0]

\* (variant: the match made on the normalized metadata)
into_reader_match_normalized(info_, metadata_, raw) ==
    convert_decoded(metadata_.pixel_format, raw)

\* into_reader: match self.decoder.info().unwrap().pixel_format
into_reader_match(info_, metadata_, raw) ==
    convert_decoded(info_.pixel_format, raw)

\* (variant: the match made on the normalized metadata)
read_image_match_normalized(info_, metadata_, raw) ==
    convert_decoded(metadata_.pixel_format, raw)

\* read_image: match self.decoder.info().unwrap().pixel_format
read_image_match(info_, metadata_, raw) ==
    convert_decoded(info_.pixel_format, raw)

\* (variant: the entry points borrow the handle and leave it usable)
keep_self(next_pc) == "decoder"

\* into_reader(mut self), read_image(mut self, ..): the handle is moved into
\* the call, so whatever the call returns the caller is left without it
consume_self(next_pc) == next_pc

\* ImageDecoder::into_reader
into_reader ==
    /\ pc = "decoder"
    /\ \E outcome \in Outcomes :
        /\ decodeCalls' = decodeCalls + 1
        /\ jpegErr' = outcome
        /\ IF outcome # NoJpegErr
           THEN /\ pc' = consume_self("failed")
                /\ result' = Err("into_reader", from_jpeg(outcome))
                /\ UNCHANGED <<rawSeen, data, convCalls, cursor>>
           ELSE LET m == into_reader_match(info, metadata, source.raw)
                IN  /\ rawSeen' = source.raw
                    /\ data' = m.data
                    /\ convCalls' = convCalls + m.calls
                    /\ cursor' = [inner |-> m.data, pos |-> 0]
                    /\ pc' = consume_self("reader")
                    /\ result' = Ok("into_reader")
    /\ UNCHANGED <<source, info, metadata, queried, dest, destIn, ended, delivered,
                   lastRead, buf, readerOut, imageOut, convVars>>

\* (variant: a buffer larger than needed is let through)
read_image_precondition_at_least(len, total) == len >= total

\* read_image: assert_eq!(u64::try_from(buf.len()), Ok(self.total_bytes()))
read_image_precondition(len, total) == len = total

\* ImageDecoder::read_image on a caller's buffer of n bytes
read_image ==
    /\ pc = "decoder"
    /\ \E n \in BufLens :
        IF \/ color_type_of(metadata) = "panic"
           \/ ~read_image_precondition(n, total_bytes(metadata))
        THEN /\ pc' = consume_self("panicked")
             /\ result' = Panic("read_image")
             /\ buf' = FreshBuf(n)
             /\ UNCHANGED <<jpegErr, decodeCalls, rawSeen, data, convCalls, imageOut>>
        ELSE \E outcome \in Outcomes :
            /\ decodeCalls' = decodeCalls + 1
            /\ jpegErr' = outcome
            /\ IF outcome # NoJpegErr
               THEN /\ pc' = consume_self("failed")
                    /\ result' = Err("read_image", from_jpeg(outcome))
                    /\ buf' = FreshBuf(n)
                    /\ UNCHANGED <<rawSeen, data, convCalls, imageOut>>
               ELSE LET m == read_image_match(info, metadata, source.raw)
                    IN  /\ rawSeen' = source.raw
                        /\ data' = m.data
                        /\ convCalls' = convCalls + m.calls
                        /\ IF Len(m.data) # n
                           THEN \* buf.copy_from_slice(&data) panics on a length mismatch
                                /\ pc' = consume_self("panicked")
                                /\ result' = Panic("read_image")
                                /\ buf' = FreshBuf(n)
                                /\ UNCHANGED imageOut
                           ELSE /\ pc' = consume_self("done")
                                /\ result' = Ok("read_image")
                                /\ buf' = m.data
                                /\ imageOut' = <<m.data>>
    /\ UNCHANGED <<source, info, metadata, queried, cursor, dest, destIn, ended,
                   delivered, lastRead, readerOut, convVars>>

---------------------------------------------------------------------------
(* Streaming Reader Adapter: impl Read for JpegReader *)

\* (variant: the buffer is copied out and the reader keeps its own)
mem_swap_copy(a, b) == <<b, b>>

\* mem::swap(a, b): what a and b hold afterwards
mem_swap(a, b) == <<b, a>>

\* (variant: the buffer is handed over whatever the caller's Vec holds)
read_to_end_takes_buffer_pos_only(pos, dst) == pos = 0

\* (variant: the buffer is handed over whatever the position)
read_to_end_takes_buffer_any_pos(pos, dst) == dst = <<>>

\* read_to_end: self.0.position() == 0 && buf.is_empty()
read_to_end_takes_buffer(pos, dst) == pos = 0 /\ dst = <<>>

\* Read::read on a caller's buffer of n bytes: self.0.read(buf)
read ==
    /\ pc = "reader"
    /\ \E n \in 0 .. MaxRead :
        LET rest == cursor_remaining(cursor)
            k == Min(n, Len(rest))
            out == SubSeq(rest, 1, k)
        IN  /\ cursor' = [cursor EXCEPT !.pos = @ + k]
            /\ delivered' = delivered \o out
            /\ lastRead' = [op |-> "read", n |-> k]
            /\ readerOut' = IF n > 0 /\ k = 0
                            THEN <<delivered'>>
                            ELSE readerOut
    /\ result' = Ok("read")
    /\ UNCHANGED <<source, pc, info, metadata, jpegErr, queried, decodeCalls,
                   convCalls, rawSeen, data, dest, destIn, ended, buf, imageOut,
                   convVars>>

\* Read::read_to_end on a caller's Vec holding d
read_to_end ==
    /\ pc = "reader"
    /\ \E d \in DestPrefixes :
        /\ destIn' = d
        /\ IF read_to_end_takes_buffer(cursor.pos, d)
           THEN \* mem::swap(buf, self.0.get_mut()); Ok(buf.len())
                LET sw == mem_swap(d, cursor.inner)
                IN  /\ dest' = sw[1]
                    /\ cursor' = [cursor EXCEPT !.inner = sw[2]]
                    /\ delivered' = delivered \o sw[1]
                    /\ lastRead' = [op |-> "read_to_end", n |-> Len(sw[1])]
           ELSE \* self.0.read_to_end(buf)
                LET rest == cursor_remaining(cursor)
                IN  /\ dest' = d \o rest
                    /\ cursor' = [cursor EXCEPT !.pos = @ + Len(rest)]
                    /\ delivered' = delivered \o rest
                    /\ lastRead' = [op |-> "read_to_end", n |-> Len(rest)]
    /\ ended' = TRUE
    /\ readerOut' = <<delivered'>>
    /\ result' = Ok("read_to_end")
    /\ UNCHANGED <<source, pc, info, metadata, jpegErr, queried, decodeCalls,
                   convCalls, rawSeen, data, buf, imageOut, convVars>>

Next ==
    \/ new
    \/ dimensions
    \/ color_type
    \/ into_reader
    \/ read_image
    \/ read
    \/ read_to_end

Spec == Init /\ [][Next]_vars

---------------------------------------------------------------------------
(* Properties of the handle, checked under Spec *)

\* the number of output bytes the caller is told to expect for the stream:
\* one per pixel for L8, three per pixel for RGB24 and for CMYK32
ExpectedBytes ==
    source.width * source.height * (IF source.pixel_format = "L8" THEN 1 ELSE 3)

\* C1: over one stream (same probed format, same raw bytes), the bytes a fully
\* drained reader of into_reader() delivered are the bytes read_image() wrote
\* into a correctly sized buffer.
C1_PathEquivalence ==
    (readerOut # <<>> /\ imageOut # <<>>) => readerOut[1] = imageOut[1]

\* both paths were taken over a two-pixel CMYK32 stream
C1_Witness ==
    /\ source.pixel_format = "CMYK32"
    /\ source.raw = <<0, 128, 255, 128, 128, 0, 0, 0>>
    /\ readerOut = << <<127, 63, 0, 127, 255, 255>> >>
    /\ imageOut = << <<127, 63, 0, 127, 255, 255>> >>

\* C4: once a handle is built its metadata holds L8 or RGB24, never CMYK32
\* (CMYK32 is stored as RGB24, L8 and RGB24 as they are); color_type()
\* returns L8 for L8 and Rgb8 for RGB24 and CMYK32 and never panics.
C4_FormatConcealment ==
    /\ metadata # NoInfo =>
          /\ metadata.pixel_format \in {"L8", "RGB24"}
          /\ metadata.pixel_format =
                (IF source.pixel_format = "L8" THEN "L8" ELSE "RGB24")
    /\ queried.op = "color_type" =>
          queried.color = (IF source.pixel_format = "L8" THEN "L8" ELSE "Rgb8")
    /\ result # Panic("color_type")
    /\ queried.color # "panic"

\* color_type() answered Rgb8 on a handle whose probe reported CMYK32
C4_Witness ==
    /\ pc = "decoder"
    /\ source.pixel_format = "CMYK32"
    /\ info.pixel_format = "CMYK32"
    /\ result = Ok("color_type")
    /\ queried.color = "Rgb8"

\* C5: every failure of the bitstream decoder, in new, into_reader and
\* read_image alike, is returned as: Format -> Decoding tagged JPEG;
\* Unsupported -> Unsupported of kind GenericFeature carrying the description;
\* Io -> IoError carrying the same error; Internal -> Decoding tagged JPEG.
C5_ErrorTranslation ==
    /\ (result.tag = "Err") = (jpegErr # NoJpegErr)
    /\ jpegErr # NoJpegErr =>
          /\ result.op \in {"new", "into_reader", "read_image"}
          /\ jpegErr.kind = "Format" =>
                /\ result.err.variant = "Decoding"
                /\ result.err.format = "Exact(Jpeg)"
                /\ result.err.cause.msg = jpegErr.msg
          /\ jpegErr.kind = "Unsupported" =>
                /\ result.err.variant = "Unsupported"
                /\ result.err.kind = "GenericFeature"
                /\ jpegErr.feature.name = "Hierarchical" =>
                      result.err.text = "Hierarchical"
                /\ jpegErr.feature.name = "SamplePrecision" =>
                      result.err.text = "SamplePrecision(12)"
          /\ jpegErr.kind = "Io" =>
                /\ result.err.variant = "IoError"
                /\ result.err.cause = [type |-> "io::Error", msg |-> jpegErr.msg]
          /\ jpegErr.kind = "Internal" =>
                /\ result.err.variant = "Decoding"
                /\ result.err.format = "Exact(Jpeg)"
                /\ result.err.cause.msg = jpegErr.msg

\* a malformed header at probe time came back as a Decoding error tagged JPEG
C5_Witness ==
    /\ result.op = "new"
    /\ result.tag = "Err"
    /\ jpegErr.kind = "Format"
    /\ result.err.variant = "Decoding"
    /\ result.err.format = "Exact(Jpeg)"

\* C6 (as claimed): every error returned by new, into_reader or read_image
\* carries the JPEG format identifier, whichever error kind caused it.
C6_AllErrorsTagged ==
    result.tag = "Err" => result.err.format = "Exact(Jpeg)"

\* C6 (amended): an error caused by a Format, Unsupported or Internal error
\* of the bitstream decoder carries the JPEG format identifier; an error
\* caused by an Io error is an IoError that carries no format identifier.
C6_TaggedUnlessIo ==
    result.tag = "Err" =>
        /\ jpegErr.kind \in {"Format", "Unsupported", "Internal"} =>
              /\ result.err.variant \in {"Decoding", "Unsupported"}
              /\ result.err.format = "Exact(Jpeg)"
        /\ jpegErr.kind = "Io" =>
              /\ result.err.variant = "IoError"
              /\ result.err.format = "none"

\* a decode entry point returned the untagged I/O error
C6_Witness ==
    /\ result.op = "into_reader"
    /\ result.tag = "Err"
    /\ jpegErr.kind = "Io"
    /\ result.err.variant = "IoError"
    /\ result.err.format = "none"

\* C7: read_image on a buffer whose length is not width * height * channels
\* of the normalized format (1 for L8, 3 for Rgb8, also when the probe said
\* CMYK32) panics, with decode() not called and the buffer untouched; with
\* the right length it does not panic.
C7_BufferPrecondition ==
    result.op = "read_image" =>
        /\ Len(buf) # ExpectedBytes =>
              /\ result.tag = "Panic"
              /\ pc = "panicked"
              /\ decodeCalls = 0
              /\ rawSeen = <<>>
              /\ jpegErr = NoJpegErr
              /\ buf = FreshBuf(Len(buf))
        /\ Len(buf) = ExpectedBytes => result.tag \in {"Ok", "Err"}

\* a 4-byte buffer for a 1x1 CMYK32 image (3 bytes are due) was refused
C7_Witness ==
    /\ result = Panic("read_image")
    /\ source.pixel_format = "CMYK32"
    /\ source.width * source.height = 1
    /\ Len(buf) = 4
    /\ decodeCalls = 0

\* C8: the reader of a successful into_reader() holds and delivers exactly
\* width * height * channels bytes of the normalized format in total (for
\* CMYK32, width * height * 3 out of width * height * 4 raw bytes), which is
\* what dimensions() and color_type() announce.
C8_ReaderLength ==
    pc = "reader" =>
        /\ Len(rawSeen) =
              source.width * source.height * pixel_bytes(source.pixel_format)
        /\ Len(delivered) + Len(cursor_remaining(cursor)) = ExpectedBytes
        /\ ExpectedBytes =
              dimensions_of(metadata)[1] * dimensions_of(metadata)[2]
                * (IF color_type_of(metadata) = "L8" THEN 1 ELSE 3)
        /\ color_type_of(metadata) \in {"L8", "Rgb8"}
        /\ readerOut # <<>> /\ cursor_remaining(cursor) = <<>> =>
              Len(readerOut[1]) = ExpectedBytes

\* a reader over two CMYK32 pixels (8 raw bytes) was drained after 6 bytes
C8_Witness ==
    /\ pc = "reader"
    /\ source.pixel_format = "CMYK32"
    /\ Len(rawSeen) = 8
    /\ Len(delivered) = 6
    /\ cursor_remaining(cursor) = <<>>
    /\ lastRead.n = 0

\* C10: after a successful decode() the converter has run exactly when the
\* format the bitstream decoder reports is CMYK32, although the normalized
\* format is RGB24 for CMYK32 and RGB24 streams alike; for L8 and RGB24 the
\* output is the raw bytes unchanged; on into_reader() and read_image().
C10_ConversionByOriginalFormat ==
    rawSeen # <<>> =>
        /\ decodeCalls = 1
        /\ (convCalls = 1) = (source.pixel_format = "CMYK32")
        /\ (convCalls = 0) = (source.pixel_format # "CMYK32")
        /\ source.pixel_format = "CMYK32" =>
              /\ metadata.pixel_format = "RGB24"
              /\ data = cmyk_to_rgb(rawSeen)
        /\ source.pixel_format # "CMYK32" => data = rawSeen
        /\ pc \in {"reader", "done"}
        /\ pc = "done" => buf = data
        /\ pc = "reader" => delivered \o cursor_remaining(cursor) = data

\* read_image converted a CMYK32 pixel although the metadata says RGB24
C10_Witness ==
    /\ pc = "done"
    /\ source.pixel_format = "CMYK32"
    /\ metadata.pixel_format = "RGB24"
    /\ convCalls = 1
    /\ rawSeen = <<0, 128, 255, 128>>
    /\ buf = <<127, 63, 0>>

\* a step of read_to_end on a live reader
ReadToEndStep ==
    /\ pc = "reader"
    /\ pc' = "reader"
    /\ lastRead'.op = "read_to_end"

\* C11: read_to_end(dest) with the cursor at 0 and dest empty moves the whole
\* buffer into dest, leaves the reader an empty buffer and returns the
\* buffer's length; in every other case it appends a copy of the bytes from
\* the cursor to the end onto dest, keeps what dest held, leaves the reader's
\* buffer as it was and returns the number of bytes appended.
C11_ReadToEndPolicy ==
    [][ReadToEndStep =>
          IF cursor.pos = 0 /\ destIn' = <<>>
          THEN /\ dest' = cursor.inner
               /\ cursor'.inner = <<>>
               /\ lastRead'.n = Len(cursor.inner)
          ELSE LET rest == SubSeq(cursor.inner, cursor.pos + 1, Len(cursor.inner))
               IN  /\ dest' = destIn' \o rest
                   /\ cursor'.inner = cursor.inner
                   /\ cursor'.pos = Len(cursor.inner)
                   /\ lastRead'.n = Len(rest)]_vars

\* a fresh six-byte reader gave its whole buffer away to an empty Vec
C11_Witness ==
    /\ pc = "reader"
    /\ lastRead = [op |-> "read_to_end", n |-> 6]
    /\ destIn = <<>>
    /\ dest = data
    /\ Len(data) = 6
    /\ cursor = [inner |-> <<>>, pos |-> 0]

\* C12: a handle calls decode() at most once; once it has, the handle is
\* gone whether decode() succeeded or failed; a failed decode() is returned at
\* once as the translated error with no conversion made, no reader built and
\* nothing written to the caller's buffer.
C12_SingleDecodeNoRetry ==
    /\ decodeCalls \in {0, 1}
    /\ decodeCalls = 1 => pc \in {"reader", "done", "failed"}
    /\ pc = "decoder" => decodeCalls = 0
    /\ (pc = "failed" /\ result.op \in {"into_reader", "read_image"}) =>
          /\ decodeCalls = 1
          /\ jpegErr \in JpegErrors
          /\ result.tag = "Err"
          /\ result.err.variant =
                (IF jpegErr.kind = "Io" THEN "IoError"
                 ELSE IF jpegErr.kind = "Unsupported" THEN "Unsupported"
                 ELSE "Decoding")
          /\ convCalls = 0
          /\ rawSeen = <<>>
          /\ data = <<>>
          /\ cursor = [inner |-> <<>>, pos |-> 0]
          /\ delivered = <<>>
          /\ buf = FreshBuf(Len(buf))

\* read_image on a rightly sized buffer failed in decode() and left it unwritten
C12_Witness ==
    /\ pc = "failed"
    /\ result.op = "read_image"
    /\ result.err.variant = "Decoding"
    /\ jpegErr.kind = "Internal"
    /\ decodeCalls = 1
    /\ source.pixel_format = "CMYK32"
    /\ Len(buf) = 6
    /\ buf = FreshBuf(6)

\* the bytes handed out so far are the first bytes of the decoded buffer and
\* the reader still holds exactly the bytes that follow them
DeliveredIsPrefix ==
    pc = "reader" =>
        /\ Len(delivered) <= Len(data)
        /\ delivered = SubSeq(data, 1, Len(delivered))
        /\ cursor_remaining(cursor) = SubSeq(data, Len(delivered) + 1, Len(data))
        /\ ended => Len(delivered) = Len(data)

\* a call on a reader on which a read_to_end has returned hands out nothing
NothingAfterEnd ==
    (pc = "reader" /\ pc' = "reader" /\ ended) =>
        /\ lastRead'.n = 0
        /\ delivered' = delivered
        /\ lastRead'.op = "read_to_end" => dest' = destIn'

\* C13: over any sequence of read and read_to_end calls on one reader the
\* bytes delivered, in call order, are a prefix of the decoded buffer, none
\* twice and none skipped; once a read_to_end has returned every later read
\* or read_to_end delivers 0 bytes, also after the buffer was swapped out.
C13_DeliveredPrefix ==
    []DeliveredIsPrefix /\ [][NothingAfterEnd]_vars

\* a read after the buffer was swapped out of a six-byte reader returned 0
C13_Witness ==
    /\ pc = "reader"
    /\ ended
    /\ lastRead = [op |-> "read", n |-> 0]
    /\ cursor = [inner |-> <<>>, pos |-> 0]
    /\ dest = data
    /\ delivered = data
    /\ Len(data) = 6

---------------------------------------------------------------------------
(* SpecConv: cmyk_to_rgb applied to bounded inputs *)

\* one sample with value x in channel position p (1 = c, 2 = m, 3 = y), key k,
\* and 0 in the two other ink channels, as in tests::cmyk_to_rgb_correct
SinglePixel(p, x, k) == [i \in 1 .. 4 |-> IF i = 4 THEN k ELSE IF i = p THEN x ELSE 0]

ShortInputs == UNION {[1 .. n -> ShortBytes] : n \in 0 .. MaxInputLen}

\* the handle side is not used: one fixed stream, no handle built
HandleIdle ==
    /\ source = [width |-> 1, height |-> 1, pixel_format |-> "L8", raw |-> <<0>>]
    /\ HandleStart

ConvInit ==
    /\ \/ \E p \in 1 .. 3, x \in Byte, k \in Byte : cin = SinglePixel(p, x, k)
       \/ cin \in ShortInputs
    /\ cout = <<>>
    /\ csteps = <<>>
    /\ cpc = "input"
    /\ HandleIdle

Convert ==
    /\ cpc = "input"
    /\ IF slices_in_bounds(cin, PixelCount(cin))
       THEN /\ cout' = cmyk_to_rgb(cin)
            /\ csteps' = cmyk_steps(cin)
            /\ cpc' = "converted"
       ELSE /\ cpc' = "panicked"
            /\ UNCHANGED <<cout, csteps>>
    /\ UNCHANGED <<cin, handleVars>>

ConvNext == Convert

SpecConv == ConvInit /\ [][ConvNext]_vars

---------------------------------------------------------------------------
(* Properties of the Color Converter, checked under SpecConv *)

\* complete 4-byte groups of the converted input
Groups == 1 .. (Len(cin) \div 4)
Group(i) == SubSeq(cin, 4 * i - 3, 4 * i)

\* C2: every output channel of every complete 4-byte group (c, m, y, k) is
\* ((255 - k) * (255 - channel)) / 255 with truncation; the inputs cover every
\* c and k in 0..255 placed in the c, the m and the y position with the two
\* other ink channels 0, so red of (c,0,0,k), green of (0,c,0,k) and blue of
\* (0,0,c,k) all equal floor((255 - c) * (255 - k) / 255).
C2_ChannelFormula ==
    cpc = "converted" =>
        \A i \in Groups : \A ch \in 1 .. 3 :
            cout[3 * (i - 1) + ch] =
                ((255 - Group(i)[4]) * (255 - Group(i)[ch])) \div 255

\* a green channel where the truncation shows: 127 * 127 / 255 = 63.25
C2_Witness ==
    /\ cpc = "converted"
    /\ cin = <<0, 128, 0, 128>>
    /\ cout = <<127, 63, 127>>

\* C3: for an input of length L the output has exactly 3 * floor(L / 4) bytes,
\* the L mod 4 trailing bytes change nothing, and output group i is the
\* conversion of input bytes 4i .. 4i+3 alone; no input makes the call panic.
C3_LengthLaw ==
    /\ cpc # "panicked"
    /\ cpc = "converted" =>
          /\ Len(cout) = 3 * (Len(cin) \div 4)
          /\ cout = cmyk_to_rgb(SubSeq(cin, 1, 4 * (Len(cin) \div 4)))
          /\ \A i \in Groups :
                SubSeq(cout, 3 * i - 2, 3 * i) = cmyk_to_rgb(Group(i))

\* seven bytes in, one group out: the three trailing bytes are dropped
C3_Witness ==
    /\ cpc = "converted"
    /\ cin = <<0, 0, 0, 0, 255, 255, 255>>
    /\ cout = <<255, 255, 255>>

\* C9: in every converted group the inverted channels 255 - x are in 0..255,
\* the products (255 - k) * (255 - x) are the exact products, at most 65025,
\* the quotients by 255 are in 0..255 and the bytes written are the quotients.
C9_NoWrap ==
    cpc = "converted" =>
        \A i \in Groups :
            LET s == csteps[i]
                px == Group(i)
            IN  /\ s.c = 255 - px[1] /\ s.m = 255 - px[2]
                /\ s.y = 255 - px[3] /\ s.k = 255 - px[4]
                /\ {s.c, s.m, s.y, s.k} \subseteq 0 .. 255
                /\ s.pr = s.k * s.c /\ s.pg = s.k * s.m /\ s.pb = s.k * s.y
                /\ {s.pr, s.pg, s.pb} \subseteq 0 .. 65025
                /\ {s.r, s.g, s.b} \subseteq 0 .. 255
                /\ s.outp = <<s.r, s.g, s.b>>

\* the largest product, 255 * 255, is formed for the sample (0, 0, 0, 0)
C9_Witness ==
    /\ cpc = "converted"
    /\ cin = <<0, 0, 0, 0>>
    /\ csteps[1].pr = 65025
    /\ cout = <<255, 255, 255>>

====
